---- MODULE Spec2Model ----
(***************************************************************************)
(* dbsync.py: export of a referentially restricted subset of a PostgreSQL  *)
(* database.  Sampled tables are dumped with a row limit as INSERT blocks, *)
(* the tables that reference them by a "<name>_id" column are dumped with  *)
(* COPY restricted to the sampled ids, and foreign-key constraints are     *)
(* dropped before and recreated after the data.                            *)
(*                                                                         *)
(* Text is modelled as sequences of tokens (the output as the sequence of  *)
(* outfile.write calls), database values as tagged tuples.                 *)
(***************************************************************************)
EXTENDS Integers, Sequences, FiniteSets, TLC

\* Bounds of the model.
MaxRows == 3
MaxLimit == 2
MaxAddLen == 1

(***************************************************************************)
(* Values a psycopg2 cursor returns, and Python's None.                    *)
(***************************************************************************)
None == <<"none">>
PyInt(n) == <<"int", n>>
PyStr(s) == <<"str", s>>
PyDatetime(n) == <<"datetime", n>>
PyDict(n) == <<"dict", n>>
PyList(s) == <<"list", s>>
PyTuple(s) == <<"tuple", s>>

Min(a, b) == IF a < b THEN a ELSE b

\* str.startswith on sequences of characters.
startswith(s, prefix) ==
    /\ Len(s) >= Len(prefix)
    /\ SubSeq(s, 1, Len(prefix)) = prefix

\* The range of a sequence.
Range(s) == {s[i] : i \in DOMAIN s}

\* The elements of a set of integers in increasing order.
RECURSIVE Sorted(_)
Sorted(S) ==
    IF S = {} THEN << >>
    ELSE LET m == CHOOSE x \in S : \A y \in S : x <= y
         IN  <<m>> \o Sorted(S \ {m})

\* sep.join(parts) for parts that are token sequences.
RECURSIVE join(_, _)
join(sep, parts) ==
    IF parts = << >> THEN << >>
    ELSE IF Len(parts) = 1 THEN parts[1]
    ELSE parts[1] \o sep \o join(sep, Tail(parts))

(***************************************************************************)
(* The source database: three base tables of schema public.  format_type   *)
(* names are sequences of characters.                                      *)
(***************************************************************************)
TableNames == {"users", "teams", "orders"}

integer == <<"i","n","t","e","g","e","r">>
text == <<"t","e","x","t">>
character_varying ==
    <<"c","h","a","r","a","c","t","e","r"," ","v","a","r","y","i","n","g">>
character == <<"c","h","a","r","a","c","t","e","r">>
geography == <<"g","e","o","g","r","a","p","h","y">>
json == <<"j","s","o","n">>
timestamp == <<"t","i","m","e","s","t","a","m","p">>
timestamp_tz ==
    <<"t","i","m","e","s","t","a","m","p"," ","w","i","t","h"," ",
      "t","i","m","e"," ","z","o","n","e">>
jsonb == <<"j","s","o","n","b">>

\* The column lists users may have: its key is named id, or uid.
UsersLayouts ==
    { << <<"id", integer>>, <<"name", text>> >>,
      << <<"uid", integer>>, <<"name", character_varying>> >> }

\* teams has its id column in second place.
TeamsColumns ==
    << <<"users_id", integer>>, <<"id", integer>>, <<"created", timestamp_tz>> >>

OrdersColumns ==
    << <<"id", integer>>, <<"users_id", integer>>, <<"teams_id", integer>>,
       <<"meta", jsonb>> >>

\* The value of column c in the i-th row of users.
UsersValue(c, i) ==
    IF c = "name" THEN (IF i % 2 = 0 THEN None ELSE PyStr("a")) ELSE PyInt(i)

UsersRows(layout, n) ==
    [i \in 1..n |-> [k \in 1..Len(layout) |-> UsersValue(layout[k][1], i)]]

\* For n users, teams has n rows; row i belongs to user (i % n) + 1.
TeamsRows(n) ==
    [i \in 1..n |-> <<PyInt((i % n) + 1), PyInt(i), PyDatetime(i)>>]

\* For n users, orders has n rows; row i belongs to user i and to team
\* (i % n) + 1.
OrdersRows(n) ==
    [i \in 1..n |->
        <<PyInt(i), PyInt(i), PyInt((i % n) + 1),
          IF i = 1 THEN None ELSE PyDict(i)>>]

\* pg_constraint: the foreign keys of each table (name, definition), users
\* having the key column named key.
FkCatalog(t, key) ==
    CASE t = "teams" ->
            << <<"teams_users_id_fkey",
                 "FOREIGN KEY (users_id) REFERENCES users(" \o key \o ")">> >>
      [] t = "orders" ->
            << <<"orders_users_id_fkey",
                 "FOREIGN KEY (users_id) REFERENCES users(" \o key \o ")">>,
               <<"orders_teams_id_fkey",
                 "FOREIGN KEY (teams_id) REFERENCES teams(id)">> >>
      [] OTHER -> << >>

VARIABLES
    SAMPLED_TABLES,   \* environment: names of the tables to sample
    SKIPPED_TABLES,   \* environment: names of the tables to leave out
    ROW_LIMIT,        \* environment: the row cap of a sampled table
    catalog,          \* source database: table -> <<column name, type>>*
    data,             \* source database: table -> rows
    pc,               \* where main stands
    outfile,          \* the chunks written so far
    full_tables,      \* get_tables: the Table objects without limit
    sampled_tables,   \* get_tables: the Table objects with limit
    iter,             \* the iteration order of each of main's three sets
    ids,              \* Table.ids
    _foreign_tables,  \* Table._foreign_tables, in insertion order
    _ididx,           \* Table._ididx
    dropped,          \* tables the drop loop has visited
    dumped,           \* tables whose dump() has been called
    created,          \* tables the create loop has visited
    where,            \* table -> the WHERE text _copy built for it
    filter_runs,      \* number of calls of set_sampled_ids
    err,              \* the exception raised, "" for none
    lastcall          \* arguments of the last direct add_foreign_table call

vars == <<SAMPLED_TABLES, SKIPPED_TABLES, ROW_LIMIT, catalog, data, pc, outfile,
          full_tables, sampled_tables, iter, ids, _foreign_tables, _ididx, dropped,
          dumped, created, where, filter_runs, err, lastcall>>

(***************************************************************************)
(* class Table.  A Table object is identified by its name; its limit is    *)
(* row_limit for the objects of sampled_tables and None for the others.    *)
(* The catalog does not change during a run, so the cached _columns and    *)
(* _coltypes are the catalog's answer.                                     *)
(***************************************************************************)
columns(t) == [k \in 1..Len(catalog[t]) |-> catalog[t][k][1]]

_coltypes(t) == [k \in 1..Len(catalog[t]) |-> catalog[t][k][2]]

foreign_key_constraints(t) == FkCatalog(t, catalog["users"][1][1])

\* The loop of Table.ididx: _ididx counts up from k until a column is "id".
RECURSIVE ididx_scan(_, _)
ididx_scan(cols, k) ==
    IF k >= Len(cols) THEN k
    ELSE IF cols[k + 1] = "id" THEN k
    ELSE ididx_scan(cols, k + 1)

\* Table.ididx: the value returned, which is also the value cached in _ididx.
ididx(t) ==
    IF _ididx[t] = None THEN ididx_scan(columns(t), 0) ELSE _ididx[t][2]

\* Table.drop_foreign_key_constraints: the chunks written.
drop_foreign_key_constraints(t) ==
    [k \in 1..Len(foreign_key_constraints(t)) |->
        <<"fk.drop", t, foreign_key_constraints(t)[k][1]>>]
    \o << <<"NL", t>> >>

\* Table.create_foreign_key_constraints: the chunks written.
create_foreign_key_constraints(t) ==
    [k \in 1..Len(foreign_key_constraints(t)) |->
        <<"fk.create", t, foreign_key_constraints(t)[k][1],
          foreign_key_constraints(t)[k][2]>>]
    \o << <<"NL", t>> >>

\* add_foreign_table without the check: a name already attached gets the
\* new ids.
add_foreign_table_overwrite(ft, name, fids) ==
    IF fids = None
    THEN [raised |-> "TypeError", ft |-> ft]
    ELSE IF \E i \in DOMAIN ft : ft[i][1] = name
    THEN [raised |-> "",
          ft |-> [i \in DOMAIN ft |->
                    IF ft[i][1] = name THEN <<name, PyTuple(fids[2])>> ELSE ft[i]]]
    ELSE [raised |-> "", ft |-> Append(ft, <<name, PyTuple(fids[2])>>)]

\* Table.add_foreign_table on the dictionary ft: the exception raised (""
\* for none) and the dictionary afterwards.  tuple(None) is a TypeError.
add_foreign_table(ft, name, fids) ==
    IF \E i \in DOMAIN ft : ft[i][1] = name
    THEN [raised |-> "RuntimeError", ft |-> ft]
    ELSE IF fids = None
    THEN [raised |-> "TypeError", ft |-> ft]
    ELSE [raised |-> "", ft |-> Append(ft, <<name, PyTuple(fids[2])>>)]

\* Table._stringify_value: fmtstr.format(value) as <<fmtstr, value>>.
_stringify_value(value, coltype) ==
    IF value = None THEN <<"NULL">>
    ELSE LET quoted == \/ startswith(coltype, character)
                       \/ startswith(coltype, geography)
                       \/ startswith(coltype, json)
             value1 == IF quoted /\ startswith(coltype, json)
                       THEN <<"json.dumps", value>> ELSE value
             fmtstr == IF quoted \/ startswith(coltype, timestamp)
                       THEN "'{}'" ELSE "{}"
             value2 == IF startswith(coltype, timestamp)
                       THEN <<"isoformat", value1>> ELSE value1
         IN  <<fmtstr, value2>>

\* Table._mogrify_row: the rendered values of '(v1,v2,...)'.
_mogrify_row(t, row) ==
    [i \in 1..Len(row) |-> _stringify_value(row[i], _coltypes(t)[i])]

(***************************************************************************)
(* SQL text.  Tokens are tagged tuples.                                    *)
(***************************************************************************)
Kw(s) == <<"kw", s>>
Ident(s) == <<"ident", s>>
Punct(s) == <<"punct", s>>

\* Python's repr of a value, as the token it makes in SQL text.
repr(v) ==
    CASE v[1] = "int" -> <<"num", v[2]>>
      [] v[1] = "str" -> <<"strlit", v[2]>>
      [] v = None -> Ident("None")
      [] OTHER -> <<"pyrepr", v>>

\* Python's str of a tuple: '()', '(1,)', '(1, 2)'.
tuple_str(tup) ==
    <<Punct("(")>>
    \o join(<<Punct(",")>>, [i \in 1..Len(tup[2]) |-> <<repr(tup[2][i])>>])
    \o (IF Len(tup[2]) = 1 THEN <<Punct(",")>> ELSE << >>)
    \o <<Punct(")")>>

\* _build_where_clause using the first restriction only.
_build_where_clause_first(ft) ==
    IF Len(ft) > 0
    THEN <<Kw("WHERE"), Ident(ft[1][1] \o "_id"), Kw("in")>> \o tuple_str(ft[1][2])
    ELSE << >>

\* Table._build_where_clause on the dictionary ft.
_build_where_clause(ft) ==
    LET where_ == [i \in 1..Len(ft) |->
                     <<Ident(ft[i][1] \o "_id"), Kw("in")>> \o tuple_str(ft[i][2])]
    IN  IF Len(where_) > 0
        THEN <<Kw("WHERE")>> \o join(<<Kw("AND")>>, where_)
        ELSE << >>

(***************************************************************************)
(* What the server does with the query of cursor.copy_expert.              *)
(***************************************************************************)
\* The token sequence toks cut at every token sep.
RECURSIVE split(_, _, _)
split(toks, sep, cur) ==
    IF toks = << >> THEN <<cur>>
    ELSE IF Head(toks) = sep THEN <<cur>> \o split(Tail(toks), sep, << >>)
    ELSE split(Tail(toks), sep, Append(cur, Head(toks)))

\* An SQL literal: a number or a quoted string.
IsLiteral(tok) == tok[1] \in {"num", "strlit"}

LiteralValue(tok) == IF tok[1] = "num" THEN PyInt(tok[2]) ELSE PyStr(tok[2])

\* <column> in ( <literal> , <literal> ... ): one literal at least, commas
\* between literals only.
ClauseParses(c) ==
    /\ Len(c) >= 5
    /\ c[1][1] = "ident"
    /\ c[2] = Kw("in")
    /\ c[3] = Punct("(")
    /\ c[Len(c)] = Punct(")")
    /\ (Len(c) - 4) % 2 = 1
    /\ \A i \in 4..(Len(c) - 1) :
          IF (i - 4) % 2 = 0 THEN IsLiteral(c[i]) ELSE c[i] = Punct(",")

ClauseColumn(c) == c[1][2]

ClauseValues(c) ==
    {LiteralValue(c[i]) : i \in {j \in 4..(Len(c) - 1) : (j - 4) % 2 = 0}}

\* The conditions of a WHERE text, AND between them.
WhereClauses(w) == IF w = << >> THEN << >> ELSE split(Tail(w), Kw("AND"), << >>)

\* Whether the server accepts the WHERE text w on table t.
WhereParses(t, w) ==
    \/ w = << >>
    \/ /\ Head(w) = Kw("WHERE")
       /\ \A k \in DOMAIN WhereClauses(w) :
             /\ ClauseParses(WhereClauses(w)[k])
             /\ ClauseColumn(WhereClauses(w)[k]) \in Range(columns(t))

ColumnIndex(t, c) == CHOOSE k \in DOMAIN columns(t) : columns(t)[k] = c

\* Whether row of table t satisfies the accepted WHERE text w.
RowMatches(t, w, row) ==
    \A k \in DOMAIN WhereClauses(w) :
        row[ColumnIndex(t, ClauseColumn(WhereClauses(w)[k]))]
            \in ClauseValues(WhereClauses(w)[k])

\* SELECT ... FROM t <w>: the rows, in the table's order.
SelectWhere(t, w) ==
    LET keep == {i \in DOMAIN data[t] : RowMatches(t, w, data[t][i])}
    IN  [k \in 1..Cardinality(keep) |-> data[t][Sorted(keep)[k]]]

\* SELECT ... FROM t LIMIT n, with no ORDER BY: any Min(n, rows) rows.
SelectLimit(t, n) ==
    {[k \in 1..Cardinality(I) |-> data[t][Sorted(I)[k]]] :
        I \in {J \in SUBSET (DOMAIN data[t]) :
                  Cardinality(J) = Min(n, Len(data[t]))}}

\* Table._select_and_insert on the rows the cursor returns: the exception
\* raised ("" for none), the chunks written, the list returned and _ididx
\* afterwards.  row[self.ididx] is an IndexError past the row's end.
_select_and_insert(t, rows) ==
    LET header == <<"INSERT", t, columns(t)>>
        rowcount == Len(rows)
        fails == rows # << >> /\ ididx(t) >= Len(rows[1])
        body == [j \in 1..(2 * rowcount) |->
                    IF j % 2 = 1
                    THEN <<"ROW", t, _mogrify_row(t, rows[(j + 1) \div 2])>>
                    ELSE <<"SEP", t, IF j \div 2 = rowcount THEN ";" ELSE ",">>]
    IN  [raised |-> IF fails THEN "IndexError" ELSE "",
         written |-> IF fails THEN <<header>>
                     ELSE <<header>> \o body \o << <<"NL", t>> >>,
         ids |-> IF fails THEN None
                 ELSE PyList([i \in 1..rowcount |-> rows[i][ididx(t) + 1]]),
         _ididx |-> IF rows = << >> THEN _ididx[t] ELSE PyInt(ididx(t))]

\* Table._copy: the exception raised, the WHERE text built and the chunks
\* written.  A query the server rejects raises after the header is written.
_copy(t) ==
    LET header == <<"BEGIN_TABLE_DUMP", t, columns(t)>>
        w == _build_where_clause(_foreign_tables[t])
        rows == SelectWhere(t, w)
    IN  IF WhereParses(t, w)
        THEN [raised |-> "", where |-> w,
              written |-> <<header>>
                          \o [k \in 1..Len(rows) |-> <<"COPYROW", t, rows[k]>>]
                          \o << <<"END_TABLE_DUMP", t>> >>]
        ELSE [raised |-> "ProgrammingError", where |-> w, written |-> <<header>>]

\* The orders in which a set can be iterated.
Orders(S) == {o \in [1..Cardinality(S) -> S] : Range(o) = S}

\* set_sampled_ids attaching nothing.
set_sampled_ids_none(pairs, fts) == [raised |-> "", fts |-> fts]

\* The pairs of the nested loops of set_sampled_ids.
LoopPairs(so, to) ==
    [k \in 1..(Len(so) * Len(to)) |->
        <<so[((k - 1) \div Len(to)) + 1], to[((k - 1) % Len(to)) + 1]>>]

\* set_sampled_ids over the pairs (sampled table, full table) still to
\* visit: the exception raised and every table's dictionary afterwards.
RECURSIVE set_sampled_ids(_, _)
set_sampled_ids(pairs, fts) ==
    IF pairs = << >> THEN [raised |-> "", fts |-> fts]
    ELSE LET sampled_table == pairs[1][1]
             t == pairs[1][2]
             fkey_colname == sampled_table \o "_id"
             r == add_foreign_table(fts[t], sampled_table, ids[sampled_table])
         IN  IF fkey_colname \in Range(columns(t))
             THEN IF r.raised # "" THEN [raised |-> r.raised, fts |-> fts]
                  ELSE set_sampled_ids(Tail(pairs), [fts EXCEPT ![t] = r.ft])
             ELSE set_sampled_ids(Tail(pairs), fts)

(***************************************************************************)
(* main.                                                                   *)
(***************************************************************************)
\* main with the constraints recreated before the full tables are dumped.
MainPhases_CreateEarly == <<"drop", "sampled", "filter", "create", "full", "end">>

\* main with set_sampled_ids called before the sampled tables are dumped.
MainPhases_FilterEarly == <<"drop", "filter", "sampled", "full", "create", "end">>

\* The loops and calls of main after get_tables, in program order.
MainPhases == <<"drop", "sampled", "filter", "full", "create", "end">>

After(p) ==
    LET i == CHOOSE k \in DOMAIN MainPhases : MainPhases[k] = p
    IN  IF i = Len(MainPhases) THEN "done" ELSE MainPhases[i + 1]

tables == full_tables \cup sampled_tables

\* The element of the iteration order o a dump loop visits next.
NextOf(o) == o[CHOOSE k \in DOMAIN o : o[k] \notin dumped /\ \A j \in 1..(k - 1) : o[j] \in dumped]

\* The values of SKIPPED_TABLES considered.
SkipChoices == {{}, {"orders"}}

Init ==
    /\ SAMPLED_TABLES \in SUBSET TableNames
    /\ SKIPPED_TABLES \in SkipChoices
    /\ ROW_LIMIT \in 1..MaxLimit
    /\ \E layout \in UsersLayouts, nu \in 0..MaxRows :
          /\ catalog = [t \in TableNames |->
                          CASE t = "users" -> layout
                            [] t = "teams" -> TeamsColumns
                            [] OTHER -> OrdersColumns]
          /\ data = [t \in TableNames |->
                       CASE t = "users" -> UsersRows(layout, nu)
                         [] t = "teams" -> TeamsRows(nu)
                         [] OTHER -> OrdersRows(nu)]
    /\ pc = "start"
    /\ outfile = << >>
    /\ full_tables = {}
    /\ sampled_tables = {}
    /\ iter = [tables |-> << >>, sampled |-> << >>, full |-> << >>]
    /\ ids = [t \in TableNames |-> None]
    /\ _foreign_tables = [t \in TableNames |-> << >>]
    /\ _ididx = [t \in TableNames |-> None]
    /\ dropped = {}
    /\ dumped = {}
    /\ created = {}
    /\ where = [t \in TableNames |-> << >>]
    /\ filter_runs = 0
    /\ err = ""
    /\ lastcall = << >>

\* What main never assigns: the environment, the source database, and the
\* record of direct calls.
env == <<SAMPLED_TABLES, SKIPPED_TABLES, ROW_LIMIT, catalog, data, lastcall>>

\* main up to get_tables.  The catalog query with an empty exclusion tuple,
\* NOT IN (), is rejected by the server.  tables, sampled_tables and
\* full_tables are sets: each is iterated in one arbitrary order, the same
\* every time it is iterated.
Begin ==
    /\ pc = "start"
    /\ outfile' = Append(outfile, <<"BEGIN_DUMP", "">>)
    /\ IF SKIPPED_TABLES \cup SAMPLED_TABLES = {}
       THEN /\ pc' = "aborted"
            /\ err' = "ProgrammingError"
            /\ UNCHANGED <<full_tables, sampled_tables, iter>>
       ELSE /\ pc' = MainPhases[1]
            /\ full_tables' = TableNames \ (SKIPPED_TABLES \cup SAMPLED_TABLES)
            /\ sampled_tables' = SAMPLED_TABLES
            /\ \E o \in Orders(full_tables' \cup sampled_tables'),
                  so \in Orders(sampled_tables'), fo \in Orders(full_tables') :
                  iter' = [tables |-> o, sampled |-> so, full |-> fo]
            /\ UNCHANGED err
    /\ UNCHANGED <<env, ids, _foreign_tables, _ididx, dropped, dumped, created,
                   where, filter_runs>>

\* for t in tables: t.drop_foreign_key_constraints(outfile)
DropLoop ==
    /\ pc = "drop"
    /\ \/ /\ ~(tables \subseteq dropped)
          /\ LET t == iter.tables[Cardinality(dropped) + 1]
             IN
             /\ outfile' = outfile \o drop_foreign_key_constraints(t)
             /\ dropped' = dropped \cup {t}
             /\ UNCHANGED pc
       \/ /\ tables \subseteq dropped
          /\ pc' = After(pc)
          /\ UNCHANGED <<outfile, dropped>>
    /\ UNCHANGED <<env, full_tables, sampled_tables, iter, ids, _foreign_tables,
                   _ididx, dumped, created, where, filter_runs, err>>

\* for t in sampled_tables: t.dump(outfile)
SampledLoop ==
    /\ pc = "sampled"
    /\ \/ /\ ~(sampled_tables \subseteq dumped)
          /\ \E rows \in SelectLimit(NextOf(iter.sampled), ROW_LIMIT) :
             LET t == NextOf(iter.sampled)
                 r == _select_and_insert(t, rows)
             IN  /\ outfile' = outfile \o r.written
                 /\ dumped' = dumped \cup {t}
                 /\ _ididx' = [_ididx EXCEPT ![t] = r._ididx]
                 /\ ids' = IF r.raised = "" THEN [ids EXCEPT ![t] = r.ids] ELSE ids
                 /\ pc' = IF r.raised = "" THEN pc ELSE "aborted"
                 /\ err' = r.raised
       \/ /\ sampled_tables \subseteq dumped
          /\ pc' = After(pc)
          /\ UNCHANGED <<outfile, dumped, _ididx, ids, err>>
    /\ UNCHANGED <<env, full_tables, sampled_tables, iter, _foreign_tables, dropped,
                   created, where, filter_runs>>

\* set_sampled_ids(sampled_tables, full_tables)
Filter ==
    /\ pc = "filter"
    /\ LET r == set_sampled_ids(LoopPairs(iter.sampled, iter.full), _foreign_tables)
       IN  /\ _foreign_tables' = r.fts
           /\ pc' = IF r.raised = "" THEN After(pc) ELSE "aborted"
           /\ err' = r.raised
    /\ filter_runs' = filter_runs + 1
    /\ UNCHANGED <<env, outfile, full_tables, sampled_tables, iter, ids, _ididx,
                   dropped, dumped, created, where>>

\* for t in full_tables: t.dump(outfile)
FullLoop ==
    /\ pc = "full"
    /\ \/ /\ ~(full_tables \subseteq dumped)
          /\ LET t == NextOf(iter.full)
                 r == _copy(t)
             IN  /\ outfile' = outfile \o r.written
                 /\ dumped' = dumped \cup {t}
                 /\ where' = [where EXCEPT ![t] = r.where]
                 /\ pc' = IF r.raised = "" THEN pc ELSE "aborted"
                 /\ err' = r.raised
       \/ /\ full_tables \subseteq dumped
          /\ pc' = After(pc)
          /\ UNCHANGED <<outfile, dumped, where, err>>
    /\ UNCHANGED <<env, full_tables, sampled_tables, iter, ids, _foreign_tables,
                   _ididx, dropped, created, filter_runs>>

\* for t in tables: t.create_foreign_key_constraints(outfile)
CreateLoop ==
    /\ pc = "create"
    /\ \/ /\ ~(tables \subseteq created)
          /\ LET t == iter.tables[Cardinality(created) + 1]
             IN
             /\ outfile' = outfile \o create_foreign_key_constraints(t)
             /\ created' = created \cup {t}
             /\ UNCHANGED pc
       \/ /\ tables \subseteq created
          /\ pc' = After(pc)
          /\ UNCHANGED <<outfile, created>>
    /\ UNCHANGED <<env, full_tables, sampled_tables, iter, ids, _foreign_tables,
                   _ididx, dropped, dumped, where, filter_runs, err>>

\* outfile.write(END_DUMP)
End ==
    /\ pc = "end"
    /\ outfile' = Append(outfile, <<"END_DUMP", "">>)
    /\ pc' = After(pc)
    /\ UNCHANGED <<env, full_tables, sampled_tables, iter, ids, _foreign_tables,
                   _ididx, dropped, dumped, created, where, filter_runs, err>>

Next ==
    \/ Begin
    \/ DropLoop
    \/ SampledLoop
    \/ Filter
    \/ FullLoop
    \/ CreateLoop
    \/ End

Spec == Init /\ [][Next]_vars

(***************************************************************************)
(* Table.add_foreign_table called directly, any number of times, on a      *)
(* freshly constructed Table("orders").                                    *)
(***************************************************************************)
AddNames == {"users", "teams"}

\* The lists of at most n ids.
RECURSIVE ListsUpTo(_)
ListsUpTo(n) ==
    IF n = 0 THEN {<< >>}
    ELSE ListsUpTo(n - 1)
         \cup {Append(l, PyInt(v)) : l \in {x \in ListsUpTo(n - 1) : Len(x) = n - 1},
                                     v \in 1..MaxRows}

InitAdd ==
    /\ SAMPLED_TABLES = AddNames
    /\ SKIPPED_TABLES = {}
    /\ ROW_LIMIT = 1
    /\ catalog = [t \in TableNames |->
                    CASE t = "users" -> CHOOSE l \in UsersLayouts : l[1][1] = "id"
                      [] t = "teams" -> TeamsColumns
                      [] OTHER -> OrdersColumns]
    /\ data = [t \in TableNames |-> << >>]
    /\ pc = "unit"
    /\ outfile = << >>
    /\ full_tables = {"orders"}
    /\ sampled_tables = {}
    /\ iter = [tables |-> << >>, sampled |-> << >>, full |-> << >>]
    /\ ids = [t \in TableNames |-> None]
    /\ _foreign_tables = [t \in TableNames |-> << >>]
    /\ _ididx = [t \in TableNames |-> None]
    /\ dropped = {}
    /\ dumped = {}
    /\ created = {}
    /\ where = [t \in TableNames |-> << >>]
    /\ filter_runs = 0
    /\ err = ""
    /\ lastcall = << >>

AddForeignTable ==
    /\ pc = "unit"
    /\ \E name \in AddNames, l \in ListsUpTo(MaxAddLen) :
          LET r == add_foreign_table(_foreign_tables["orders"], name, PyList(l))
          IN  /\ _foreign_tables' = [_foreign_tables EXCEPT !["orders"] = r.ft]
              /\ err' = r.raised
              /\ lastcall' = <<name, PyList(l)>>
    /\ UNCHANGED <<SAMPLED_TABLES, SKIPPED_TABLES, ROW_LIMIT, catalog, data, pc,
                   outfile, full_tables, sampled_tables, iter, ids, _ididx,
                   dropped, dumped, created, where, filter_runs>>

SpecAdd == InitAdd /\ [][AddForeignTable]_vars

(***************************************************************************)
(* Properties.                                                             *)
(***************************************************************************)
\* The chunks of a data block: an INSERT statement or a COPY block.
IsData(chunk) ==
    chunk[1] \in {"INSERT", "ROW", "SEP", "BEGIN_TABLE_DUMP", "COPYROW",
                  "END_TABLE_DUMP"}

HasData == \E j \in DOMAIN outfile : IsData(outfile[j])

\* The positions in outfile of the chunks of kind k of table t.
Positions(k, t) == {i \in DOMAIN outfile : outfile[i][1] = k /\ outfile[i][2] = t}

\* The sampled tables a column of table t names as "<S>_id".
Referenced(t) == {S \in sampled_tables : (S \o "_id") \in Range(columns(t))}

\* The value of column "<S>_id" in a row of table t.
FkValue(t, S, row) == row[ColumnIndex(t, S \o "_id")]

\* C1: every foreign-key drop statement of every exported table is in the
\* output before the first chunk of any data block, and a recreate
\* statement is written only once every exported table has been dumped,
\* after the last chunk of every data block; a finished run has recreated
\* every constraint.
C1_ConstraintBracket ==
    /\ \A i, j \in DOMAIN outfile :
          /\ (outfile[i][1] = "fk.drop" /\ IsData(outfile[j])) => i < j
          /\ (outfile[i][1] = "fk.create" /\ IsData(outfile[j])) => j < i
    /\ HasData =>
          \A t \in tables : \A k \in DOMAIN foreign_key_constraints(t) :
             \E i \in DOMAIN outfile :
                outfile[i] = <<"fk.drop", t, foreign_key_constraints(t)[k][1]>>
    /\ (\E i \in DOMAIN outfile : outfile[i][1] = "fk.create") =>
          /\ tables \subseteq dumped
          /\ pc \in {"create", "end", "done"}
    /\ pc = "done" =>
          \A t \in tables : \A k \in DOMAIN foreign_key_constraints(t) :
             \E i \in DOMAIN outfile :
                /\ outfile[i][1] = "fk.create"
                /\ outfile[i][2] = t
                /\ outfile[i][3] = foreign_key_constraints(t)[k][1]

\* A finished run that sampled users, dumped teams and orders in full and
\* wrote drops, rows of both kinds and recreates.
C1_Witness ==
    /\ pc = "done"
    /\ sampled_tables = {"users"}
    /\ full_tables = {"teams", "orders"}
    /\ \E i, j, k, l \in DOMAIN outfile :
          /\ outfile[i][1] = "fk.drop"
          /\ outfile[j][1] = "ROW"
          /\ outfile[k][1] = "COPYROW"
          /\ outfile[l][1] = "fk.create"

\* C2: set_sampled_ids runs at most once, and exactly once in a finished
\* run; when it has run every sampled table has been dumped and has its ids
\* set, and the ids copied into a restriction are those ids; no full table
\* is dumped before it has run.
C2_FilterOrder ==
    /\ filter_runs <= 1
    /\ filter_runs = 1 =>
          /\ sampled_tables \subseteq dumped
          /\ \A S \in sampled_tables : ids[S] # None
    /\ \A t \in TableNames : \A k \in DOMAIN _foreign_tables[t] :
          LET S == _foreign_tables[t][k][1]
          IN  /\ S \in sampled_tables
              /\ t \in full_tables
              /\ ids[S] # None
              /\ _foreign_tables[t][k][2] = PyTuple(ids[S][2])
    /\ (full_tables \cap dumped # {}) => filter_runs = 1
    /\ pc = "done" => filter_runs = 1

\* A finished run in which the filter attached captured ids to a full table
\* that was then dumped.
C2_Witness ==
    /\ pc = "done"
    /\ filter_runs = 1
    /\ \E t \in full_tables \cap dumped :
          /\ Len(_foreign_tables[t]) = 2
          /\ Len(_foreign_tables[t][1][2][2]) >= 2

\* C3: every row in the COPY block of a full table F that has a column
\* "<S>_id" for a sampled table S has that column's value among the ids
\* captured while dumping S.
C3_FullRowsReferenceSampled ==
    \A i \in DOMAIN outfile :
        outfile[i][1] = "COPYROW" =>
            /\ outfile[i][2] \in full_tables
            /\ \A S \in Referenced(outfile[i][2]) :
                  /\ ids[S] # None
                  /\ FkValue(outfile[i][2], S, outfile[i][3]) \in Range(ids[S][2])

\* A full table with a restriction was dumped: some of its rows were
\* written and some were left out.
C3_Witness ==
    \E F \in full_tables :
        /\ Referenced(F) # {}
        /\ Positions("END_TABLE_DUMP", F) # {}
        /\ Positions("COPYROW", F) # {}
        /\ Cardinality(Positions("COPYROW", F)) < Len(data[F])

\* The value at position k of a written row: of the rendered value in an
\* INSERT row, the value itself in a COPY row.
WrittenValue(chunk, k) == IF chunk[1] = "ROW" THEN chunk[3][k][2] ELSE chunk[3][k]

\* The rows of table t whose "<S>_id" is among the captured ids of S, for
\* every sampled table S that t references.
RowsOfSampled(t) ==
    LET keep == {i \in DOMAIN data[t] :
                    \A S \in Referenced(t) :
                        /\ ids[S] # None
                        /\ FkValue(t, S, data[t][i]) \in Range(ids[S][2])}
    IN  [k \in 1..Cardinality(keep) |-> data[t][Sorted(keep)[k]]]

\* The rows written in the COPY block of table t.
CopiedRows(t) ==
    [k \in 1..Cardinality(Positions("COPYROW", t)) |->
        outfile[Sorted(Positions("COPYROW", t))[k]][3]]

TextLike(coltype) ==
    \/ startswith(coltype, character)
    \/ startswith(coltype, geography)
    \/ coltype = text

\* C5: in every row written for a sampled table, a value that is not NULL
\* is a single-quoted literal when its column's type is character,
\* geography or text, and unquoted when the type is integer.
C5_TextQuoted ==
    \A i \in DOMAIN outfile :
        outfile[i][1] = "ROW" =>
            \A k \in DOMAIN outfile[i][3] :
                LET v == outfile[i][3][k]
                    coltype == _coltypes(outfile[i][2])[k]
                IN  v # <<"NULL">> =>
                        /\ TextLike(coltype) => v[1] = "'{}'"
                        /\ coltype = integer => v[1] = "{}"

\* The position of the column named id, 0 when there is none.
IdPosition(t) ==
    IF \E k \in DOMAIN columns(t) : columns(t)[k] = "id"
    THEN (CHOOSE k \in DOMAIN columns(t) : columns(t)[k] = "id") - 1
    ELSE 0

\* C6: once looked up, a table's identifier position is the position of
\* its column named id, or 0 when it has none, and lies within its columns.
C6_IdPosition ==
    \A t \in TableNames :
        _ididx[t] # None =>
            /\ _ididx[t][2] = IdPosition(t)
            /\ _ididx[t][2] < Len(columns(t))

\* C8: the INSERT block of a sampled table whose dump returned ends with
\* the terminator ";" after its last row, with "," between the rows before.
C8_InsertTerminated ==
    \A t \in sampled_tables :
        ids[t] # None =>
            \A p \in Positions("INSERT", t) :
                LET q == CHOOSE j \in DOMAIN outfile :
                            /\ j > p
                            /\ outfile[j][1] = "NL"
                            /\ \A m \in (p + 1)..(j - 1) : outfile[m][1] # "NL"
                IN  /\ outfile[q - 1] = <<"SEP", t, ";">>
                    /\ \A m \in (p + 1)..(q - 2) :
                          IF (m - p) % 2 = 1 THEN outfile[m][1] = "ROW"
                          ELSE outfile[m] = <<"SEP", t, ",">>

\* C9: when a full table F is dumped and a sampled table it references
\* captured no ids, the WHERE text built for F is accepted by the server,
\* F's COPY block is complete and empty, and the run has not failed.
C9_EmptyIdsMatchNothing ==
    \A F \in full_tables \cap dumped :
        (\E S \in Referenced(F) : ids[S] = PyList(<< >>)) =>
            /\ WhereParses(F, where[F])
            /\ Positions("END_TABLE_DUMP", F) # {}
            /\ Positions("COPYROW", F) = {}
            /\ pc # "aborted"

\* The SQL literal of a captured id.
SqlLiteral(v) == IF v[1] = "int" THEN <<"num", v[2]>> ELSE <<"strlit", v[2]>>

\* ( id1 , id2 , ... ) with a comma between two ids and nowhere else.
SqlIdList(l) ==
    <<Punct("(")>>
    \o join(<<Punct(",")>>, [i \in 1..Len(l) |-> <<SqlLiteral(l[i])>>])
    \o <<Punct(")")>>

\* C10: the WHERE text built for a dumped full table is empty when it has
\* no restriction and otherwise WHERE followed by one clause
\* "<S>_id in (ids of S)" per referenced sampled table S, AND between them.
C10_WhereClauseForm ==
    \A F \in full_tables \cap dumped :
        LET ft == _foreign_tables[F]
        IN  /\ Len(ft) = Cardinality(Referenced(F))
            /\ {ft[i][1] : i \in DOMAIN ft} = Referenced(F)
            /\ where[F] =
                  IF Len(ft) = 0 THEN << >>
                  ELSE <<Kw("WHERE")>>
                       \o join(<<Kw("AND")>>,
                               [i \in 1..Len(ft) |->
                                   <<Ident(ft[i][1] \o "_id"), Kw("in")>>
                                   \o SqlIdList(ids[ft[i][1]][2])])

\* C7: a call of add_foreign_table with a name already attached raises
\* RuntimeError and leaves the dictionary as it was; a call with a new name
\* raises nothing, adds the name with the tuple of the given ids and
\* changes no other entry.
C7_AddForeignTable ==
    [][LET old == _foreign_tables["orders"]
           new == _foreign_tables'["orders"]
           name == lastcall'[1]
           fids == lastcall'[2]
       IN  IF \E i \in DOMAIN old : old[i][1] = name
           THEN /\ err' = "RuntimeError"
                /\ new = old
           ELSE /\ err' = ""
                /\ Len(new) = Len(old) + 1
                /\ new[Len(new)] = <<name, PyTuple(fids[2])>>
                /\ \A i \in DOMAIN old : new[i] = old[i]]_vars

\* The last call named a table already attached with other ids, and raised.
C7_Witness ==
    /\ pc = "unit"
    /\ err = "RuntimeError"
    /\ \E i \in DOMAIN _foreign_tables["orders"] :
          /\ _foreign_tables["orders"][i][1] = lastcall[1]
          /\ _foreign_tables["orders"][i][2] # PyTuple(lastcall[2][2])
    /\ Len(_foreign_tables["orders"]) = 2

====
